---- MODULE Spec2Model ----
(***************************************************************************)
(* django-setman: layered settings resolution (LazySettings), the single   *)
(* persisted Settings record, the process-wide Resolution Cache and the    *)
(* per-proxy micro-cache.                                                  *)
(*                                                                         *)
(* Values are small positive integers: values every Setting Definition's   *)
(* field accepts and the JSON column stores unchanged (the serialisation   *)
(* of SettingsField is outside this model).  A mapping key that is absent  *)
(* holds NoKey.                                                            *)
(***************************************************************************)
EXTENDS Integers, Sequences, FiniteSets, TLC

(* host  : django_settings, name -> value (NoKey: not exposed)           *)
(* store : the rows of the Settings table, row i has pk i; rows are      *)
(*         never deleted                                                 *)
(* cache : cache[CACHE_KEY], a pickled copy of a Settings instance (the  *)
(*         default local-memory cache hands out a fresh copy per get)    *)
(* micro : LazySettings._cache of the root proxy and of the current      *)
(*         scoped proxy of each container                                *)
(* last  : the last call, its result and the state it started from       *)
(* nops  : calls made so far                                             *)
(* rec   : data of a Settings instance used on its own                   *)
(* pc, loc : position and locals of each concurrent request              *)
VARIABLES host, store, cache, micro, last, nops, rec, pc, loc

vars == <<host, store, cache, micro, last, nops, rec, pc, loc>>

(* ------------------------------ bounds -------------------------------- *)
MaxValue == 2
MaxOps == 3
MaxThreads == 2
MaxConcOps == 2

(* ------------------------------ values -------------------------------- *)
NoKey == 0
NoPk == 0
Values == 1..MaxValue
Slot == 0..MaxValue

Root == "root"
Containers == {"app1", "app2"}
Views == {Root} \cup Containers
SNames == {"P", "U"}
AllNames == SNames \cup Containers
Threads == 1..MaxThreads

(* --------------------- Settings Schema (AVAILABLE_SETTINGS) ----------- *)
(* Project level declares setting P and the containers app1 and app2;     *)
(* each container declares a setting P of its own.  U is declared nowhere.*)
DefaultP == 1
DefaultApp1P == 1
DefaultApp2P == 2

Declared(view) == {"P"}

IsSettingsContainer(view, name) == view = Root /\ name \in Containers

HasAttr(view, name) == name \in Declared(view) \/ IsSettingsContainer(view, name)

Default(view, name) ==
    IF view = Root THEN DefaultP
    ELSE IF view = "app1" THEN DefaultApp1P ELSE DefaultApp2P

(* ------------------------ Settings.data mapping ----------------------- *)
(* data.top[n]      : top-level entry of a setting name (NoKey = no key)  *)
(* data.sub[c]      : top-level entry of container name c, a sub-mapping  *)
EmptyMap == [n \in SNames |-> NoKey]
EmptySub == [present |-> FALSE, map |-> EmptyMap]
EmptyData == [top |-> EmptyMap, sub |-> [c \in Containers |-> EmptySub]]

SubMaps == {EmptySub} \cup {[present |-> TRUE, map |-> m] : m \in [SNames -> Slot]}
AllData == [top : [SNames -> Slot], sub : [Containers -> SubMaps]]

NoEntry == [present |-> FALSE, pk |-> NoPk, data |-> EmptyData]
CacheEntry(pk, d) == [present |-> TRUE, pk |-> pk, data |-> d]

(* ------------------------------ results ------------------------------- *)
Ok == [kind |-> "ok", v |-> NoKey, name |-> ""]
None == [kind |-> "none", v |-> NoKey, name |-> ""]
Val(v) == [kind |-> "value", v |-> v, name |-> ""]
Proxy(c) == [kind |-> "proxy", v |-> NoKey, name |-> c]
Err(kind, name) == [kind |-> kind, v |-> NoKey, name |-> name]

IsError(r) == r.kind \notin {"ok", "none", "value", "proxy"}

EmptyMicro == [n \in AllNames |-> None]

(* ------------------------- Settings (models.py) ----------------------- *)
NoApp == "None"

(* mutant: the assignment to data[name] is lost *)
SettingsSetAttrDropped(d, name, value) == d

(* Settings.__setattr__: data[name] = value *)
SettingsSetAttr(d, name, value) == [d EXCEPT !.top[name] = value]

(* Settings.__delattr__: if name in data: del data[name] (the top-level   *)
(* key, which for a container name is the whole sub-mapping)              *)
SettingsDelAttr(d, name) ==
    IF name \in Containers
    THEN [d EXCEPT !.sub[name] = EmptySub]
    ELSE [d EXCEPT !.top[name] = NoKey]

(* mutant: every stored key of the container gets the default, also a    *)
(* key with no Setting Definition                                        *)
RevertSubAllKeys(d, c) ==
    IF ~d.sub[c].present THEN d
    ELSE [d EXCEPT !.sub[c].map =
            [n \in SNames |->
                IF d.sub[c].map[n] # NoKey
                THEN Default(c, n) ELSE d.sub[c].map[n]]]

(* Settings.revert(app_name) on the sub-mapping of one container *)
RevertSub(d, c) ==
    IF ~d.sub[c].present THEN d
    ELSE [d EXCEPT !.sub[c].map =
            [n \in SNames |->
                IF d.sub[c].map[n] # NoKey /\ n \in Declared(c)
                THEN Default(c, n) ELSE d.sub[c].map[n]]]

(* Settings.revert(): every stored top-level key with a Setting           *)
(* Definition gets its default, stored containers are reverted in turn    *)
RevertTop(d) ==
    [top |-> [n \in SNames |->
                IF d.top[n] # NoKey /\ n \in Declared(Root)
                THEN Default(Root, n) ELSE d.top[n]],
     sub |-> [c \in Containers |-> RevertSub(d, c).sub[c]]]

(* mutant: the loop over the stored keys stops after the first key it    *)
(* changes                                                               *)
RevertDataFirstOnly(d, app) ==
    LET t == [d EXCEPT !.top = RevertTop(d).top] IN
    IF app # NoApp THEN RevertSub(d, app)
    ELSE IF t # d THEN t
    ELSE IF RevertSub(d, "app1") # d THEN RevertSub(d, "app1")
    ELSE RevertSub(d, "app2")

RevertData(d, app) == IF app = NoApp THEN RevertTop(d) ELSE RevertSub(d, app)

(* mutant: the lookup never excludes self, so self is counted *)
ValidateUniqueCountsSelf(pk, st) == Len(st) = 0

(* Settings.validate_unique: count of the rows other than self is zero *)
ValidateUnique(pk, st) ==
    Cardinality({i \in 1..Len(st) : pk = NoPk \/ i # pk}) = 0

OnlyOne == "ValidationError: Only one Settings instance could be created."

(* post_save receiver clear_settings_cache, LazySettings._clear *)
ClearSettingsCache(ca) == NoEntry

(* Model.save(): pre_save validate_settings, INSERT or UPDATE, post_save  *)
ModelSave(pk, d, st, ca) ==
    IF ~ValidateUnique(pk, st)
    THEN [err |-> OnlyOne, pk |-> pk, data |-> d, store |-> st, cache |-> ca]
    ELSE IF pk = NoPk
    THEN [err |-> "", pk |-> Len(st) + 1, data |-> d,
          store |-> Append(st, d), cache |-> ClearSettingsCache(ca)]
    ELSE [err |-> "", pk |-> pk, data |-> d,
          store |-> [st EXCEPT ![pk] = d], cache |-> ClearSettingsCache(ca)]

(* --------------------------- LazySettings (lazy.py) ------------------- *)
(* cache.delete(CACHE_KEY) *)
CacheDelete(ca) == NoEntry

(* mutant: the save invalidates nothing, the cache entry stays *)
SaveKeepsCache(pk, d, st, ca) ==
    LET s == ModelSave(pk, d, st, ca) IN
    IF s.err # "" THEN s ELSE [s EXCEPT !.cache = ca]

(* custom.save() followed by cache.delete(CACHE_KEY) *)
SaveAndDelete(pk, d, st, ca) ==
    LET s == ModelSave(pk, d, st, ca) IN
    IF s.err # "" THEN s ELSE [s EXCEPT !.cache = CacheDelete(s.cache)]

(* Settings.objects.get(): the one row, DoesNotExist, or                  *)
(* MultipleObjectsReturned                                                *)
ObjectsGet(st) ==
    IF Len(st) = 1 THEN [err |-> "", pk |-> 1, data |-> st[1]]
    ELSE IF Len(st) = 0 THEN [err |-> "DoesNotExist", pk |-> NoPk, data |-> EmptyData]
    ELSE [err |-> "MultipleObjectsReturned", pk |-> NoPk, data |-> EmptyData]

(* mutant: a missing record is not created, DoesNotExist goes up *)
GetCustomSettingsNoCreate(st, ca) ==
    LET got == ObjectsGet(st) IN
    [err |-> got.err, pk |-> got.pk, data |-> got.data, store |-> st, cache |-> ca]

(* LazySettings._get_custom_settings *)
GetCustomSettings(st, ca) ==
    LET got == ObjectsGet(st) IN
    IF got.err = "DoesNotExist" THEN ModelSave(NoPk, EmptyData, st, ca)
    ELSE [err |-> got.err, pk |-> got.pk, data |-> got.data, store |-> st, cache |-> ca]

(* LazySettings._custom (a scoped proxy asks its parent, the root): the   *)
(* cached instance, or the loaded/created one, which is put in the cache  *)
Custom(st, ca) ==
    IF ca.present
    THEN [err |-> "", pk |-> ca.pk, data |-> ca.data, store |-> st, cache |-> ca]
    ELSE LET got == GetCustomSettings(st, ca) IN
         IF got.err # "" THEN got
         ELSE [got EXCEPT !.cache = CacheEntry(got.pk, got.data)]

HostHas(h, name) == name \in SNames /\ h[name] # NoKey

(* mutant: the schema default is consulted before host configuration *)
GetSettingValueSchemaFirst(d, h, view, name) ==
    IF view # Root /\ d.sub[view].present /\ name \in SNames
       /\ d.sub[view].map[name] # NoKey
    THEN Val(d.sub[view].map[name])
    ELSE IF name \in SNames /\ d.top[name] # NoKey
    THEN Val(d.top[name])
    ELSE IF HasAttr(view, name)
    THEN IF IsSettingsContainer(view, name) THEN Proxy(name)
         ELSE Val(Default(view, name))
    ELSE IF HostHas(h, name)
    THEN Val(h[name])
    ELSE Err("AttributeError", name)

(* mutant: the default is read from the project-level schema, not from   *)
(* the proxy's own schema view                                           *)
GetSettingValueRootDefault(d, h, view, name) ==
    IF view # Root /\ d.sub[view].present /\ name \in SNames
       /\ d.sub[view].map[name] # NoKey
    THEN Val(d.sub[view].map[name])
    ELSE IF name \in SNames /\ d.top[name] # NoKey
    THEN Val(d.top[name])
    ELSE IF HostHas(h, name)
    THEN Val(h[name])
    ELSE IF HasAttr(view, name)
    THEN IF IsSettingsContainer(view, name) THEN Proxy(name)
         ELSE Val(Default(Root, name))
    ELSE Err("AttributeError", name)

(* mutant: host configuration is consulted before the database overrides *)
GetSettingValueHostFirst(d, h, view, name) ==
    IF HostHas(h, name)
    THEN Val(h[name])
    ELSE IF view # Root /\ d.sub[view].present /\ name \in SNames
            /\ d.sub[view].map[name] # NoKey
    THEN Val(d.sub[view].map[name])
    ELSE IF name \in SNames /\ d.top[name] # NoKey
    THEN Val(d.top[name])
    ELSE IF HasAttr(view, name)
    THEN IF IsSettingsContainer(view, name) THEN Proxy(name)
         ELSE Val(Default(view, name))
    ELSE Err("AttributeError", name)

(* LazySettings._get_setting_value *)
GetSettingValue(d, h, view, name) ==
    IF view # Root /\ d.sub[view].present /\ name \in SNames
       /\ d.sub[view].map[name] # NoKey
    THEN Val(d.sub[view].map[name])
    ELSE IF name \in SNames /\ d.top[name] # NoKey
    THEN Val(d.top[name])
    ELSE IF HostHas(h, name)
    THEN Val(h[name])
    ELSE IF HasAttr(view, name)
    THEN IF IsSettingsContainer(view, name) THEN Proxy(name)
         ELSE Val(Default(view, name))
    ELSE Err("AttributeError", name)

(* __getattr__ on a micro-cache miss: self._custom.data, then the layers *)
Resolve(h, st, ca, view, name) ==
    LET c == Custom(st, ca) IN
    IF c.err # "" THEN Err(c.err, "") ELSE GetSettingValue(c.data, h, view, name)

(* mutant: the app branch updates the top level of data *)
ScopedUpdateTop(d, prefix, name, value) == [d EXCEPT !.top[name] = value]

(* LazySettings.__setattr__, app branch: data[prefix].update({name: value}) *)
ScopedUpdate(d, prefix, name, value) ==
    [d EXCEPT !.sub[prefix] =
        [present |-> TRUE, map |-> [d.sub[prefix].map EXCEPT ![name] = value]]]

(* self._cache[name] = value; a resolved container is a new scoped proxy  *)
(* with an empty micro-cache of its own                                   *)
StoreMicro(m, view, name, r) ==
    [w \in Views |->
        IF w = view THEN [m[w] EXCEPT ![name] = r]
        ELSE IF r.kind = "proxy" /\ w = r.name THEN EmptyMicro
        ELSE m[w]]

(* mutant: the micro-cache entry is written whatever the resolution gave *)
MicroAfterReadAlways(m, view, name, r) == StoreMicro(m, view, name, r)

(* value = self._get_setting_value(name); self._cache[name] = value: a    *)
(* raised AttributeError leaves the micro-cache as it was                *)
MicroAfterRead(m, view, name, r) ==
    IF IsError(r) THEN m ELSE StoreMicro(m, view, name, r)

(* ----------------- store-default-values (setman_cmd.py) --------------- *)
(* store_values: every project-level definition and every container       *)
(* definition is set to its default                                       *)
StoreValues(d) ==
    [top |-> [n \in SNames |-> IF n \in Declared(Root) THEN Default(Root, n) ELSE d.top[n]],
     sub |-> [c \in Containers |->
                [present |-> TRUE,
                 map |-> [n \in SNames |->
                            IF n \in Declared(c) THEN Default(c, n)
                            ELSE d.sub[c].map[n]]]]]

(* Command.store_default_values.  A record that does not exist yet is     *)
(* Settings(), whose data is the field default '': a container that the   *)
(* schema yields before any project-level setting is then stored by item  *)
(* assignment into that string, which raises TypeError.                   *)
StoreDefaultValuesCmd(st, ca, containerFirst) ==
    LET got == ObjectsGet(st) IN
    IF got.err = "MultipleObjectsReturned"
    THEN [err |-> got.err, pk |-> NoPk, data |-> EmptyData, store |-> st, cache |-> ca]
    ELSE IF got.err = "DoesNotExist" /\ containerFirst
    THEN [err |-> "TypeError", pk |-> NoPk, data |-> EmptyData, store |-> st, cache |-> ca]
    ELSE ModelSave(got.pk, StoreValues(got.data), st, ca)

(* ------------------------------ history ------------------------------- *)
(* last: the operation that produced the current state, its result and  *)
(* the host configuration, store, Resolution Cache and micro-caches it   *)
(* started from                                                          *)
Op(op, view, name, value, res, h, st, ca, m) ==
    [op |-> op, view |-> view, name |-> name, value |-> value, res |-> res,
     host |-> h, store |-> st, cache |-> ca, micro |-> m]

Step(op, view, name, value, res) ==
    /\ nops < MaxOps
    /\ nops' = nops + 1
    /\ last' = Op(op, view, name, value, res, host, store, cache, micro)

ResultOf(r) == IF r.err = "" THEN Ok ELSE Err(r.err, "")

(* ------------------------- single-threaded actions -------------------- *)
(* LazySettings.__getattr__ *)
Read(view, name) ==
    /\ IF micro[view][name] # None
       THEN /\ Step("read", view, name, NoKey, micro[view][name])
            /\ UNCHANGED <<store, cache, micro>>
       ELSE LET c == Custom(store, cache)
                r == Resolve(host, store, cache, view, name)
            IN /\ Step("read", view, name, NoKey, r)
               /\ store' = c.store
               /\ cache' = c.cache
               /\ micro' = MicroAfterRead(micro, view, name, r)
    /\ UNCHANGED <<host, rec, pc, loc>>

(* mutant: the write goes to the record whatever host configuration      *)
(* exposes                                                               *)
WriteIgnoresHost(view, name, value) ==
    /\ LET c == Custom(store, cache)
           d == IF view = Root THEN SettingsSetAttr(c.data, name, value)
                ELSE ScopedUpdate(c.data, view, name, value)
           s == IF c.err # "" THEN c ELSE SaveAndDelete(c.pk, d, c.store, c.cache)
       IN /\ Step("write", view, name, value, ResultOf(s))
          /\ store' = s.store
          /\ cache' = s.cache
          /\ UNCHANGED host
    /\ UNCHANGED <<micro, rec, pc, loc>>

(* LazySettings.__setattr__ *)
Write(view, name, value) ==
    /\ IF HostHas(host, name)
       THEN /\ host' = [host EXCEPT ![name] = value]
            /\ Step("write", view, name, value, Ok)
            /\ UNCHANGED <<store, cache>>
       ELSE LET c == Custom(store, cache)
                d == IF view = Root THEN SettingsSetAttr(c.data, name, value)
                     ELSE ScopedUpdate(c.data, view, name, value)
                s == IF c.err # "" THEN c ELSE SaveAndDelete(c.pk, d, c.store, c.cache)
            IN /\ Step("write", view, name, value, ResultOf(s))
               /\ store' = s.store
               /\ cache' = s.cache
               /\ UNCHANGED host
    /\ UNCHANGED <<micro, rec, pc, loc>>

(* LazySettings.__delattr__ *)
Delete(view, name) ==
    /\ IF HostHas(host, name)
       THEN /\ host' = [host EXCEPT ![name] = NoKey]
            /\ Step("delete", view, name, NoKey, Ok)
            /\ UNCHANGED <<store, cache>>
       ELSE LET c == Custom(store, cache)
                s == IF c.err # "" THEN c
                     ELSE SaveAndDelete(c.pk, SettingsDelAttr(c.data, name), c.store, c.cache)
            IN /\ Step("delete", view, name, NoKey, ResultOf(s))
               /\ store' = s.store
               /\ cache' = s.cache
               /\ UNCHANGED host
    /\ UNCHANGED <<micro, rec, pc, loc>>

(* LazySettings.revert: reverts the instance _custom hands out, a copy of *)
(* the cache entry (or the loaded record, after its copy is cached), and  *)
(* drops it                                                               *)
Revert(view) ==
    /\ LET c == Custom(store, cache)
       IN /\ Step("revert", view, "", NoKey, ResultOf(c))
          /\ store' = c.store
          /\ cache' = c.cache
    /\ UNCHANGED <<host, micro, rec, pc, loc>>

(* LazySettings.save from a store and a cache: self._custom.save() *)
SaveCall(st, ca) ==
    LET c == Custom(st, ca)
    IN IF c.err # "" THEN c ELSE ModelSave(c.pk, c.data, c.store, c.cache)

(* LazySettings.save *)
Save(view) ==
    /\ LET s == SaveCall(store, cache)
       IN /\ Step("save", view, "", NoKey, ResultOf(s))
          /\ store' = s.store
          /\ cache' = s.cache
    /\ UNCHANGED <<host, micro, rec, pc, loc>>

(* manage.py setman_cmd --default-values *)
StoreDefaultValues(containerFirst) ==
    /\ LET s == StoreDefaultValuesCmd(store, cache, containerFirst)
       IN /\ Step(IF containerFirst THEN "store_defaults_cf" ELSE "store_defaults",
                  Root, "", NoKey, ResultOf(s))
          /\ store' = s.store
          /\ cache' = s.cache
    /\ UNCHANGED <<host, micro, rec, pc, loc>>

(* Settings.objects.create(data={}) *)
CreateRecord ==
    /\ LET s == ModelSave(NoPk, EmptyData, store, cache)
       IN /\ Step("create", Root, "", NoKey, ResultOf(s))
          /\ store' = s.store
          /\ cache' = s.cache
    /\ UNCHANGED <<host, micro, rec, pc, loc>>

(* ExpiringDict: an entry older than max_age_seconds is gone *)
Expire(view, name) ==
    /\ micro[view][name] # None
    /\ Step("expire", view, name, NoKey, Ok)
    /\ micro' = [micro EXCEPT ![view][name] = None]
    /\ UNCHANGED <<host, store, cache, rec, pc, loc>>

NoOp(h) == Op("init", Root, "", NoKey, Ok, h, <<>>, NoEntry, [w \in Views |-> EmptyMicro])
IdleLoc == [pk |-> NoPk, data |-> EmptyData, op |-> "", name |-> "", value |-> NoKey,
            err |-> ""]

Init ==
    /\ host \in [SNames -> {NoKey, MaxValue}]
    /\ store = <<>>
    /\ cache = NoEntry
    /\ micro = [w \in Views |-> EmptyMicro]
    /\ last = NoOp(host)
    /\ nops = 0
    /\ rec = EmptyData
    /\ pc = [t \in Threads |-> "idle"]
    /\ loc = [t \in Threads |-> IdleLoc]

Next ==
    \/ \E view \in Views, name \in AllNames : Read(view, name)
    \/ \E view \in Views, name \in SNames, value \in Values : Write(view, name, value)
    \/ \E view \in Views, name \in AllNames : Delete(view, name)
    \/ \E view \in Views : Revert(view)
    \/ \E view \in Views : Save(view)
    \/ \E containerFirst \in BOOLEAN : StoreDefaultValues(containerFirst)
    \/ CreateRecord
    \/ \E view \in Views, name \in AllNames : Expire(view, name)

Spec == Init /\ [][Next]_vars

(* ------------------- a Settings instance on its own ------------------- *)
(* instance.revert(app_name) on an instance holding any two-level data   *)
RecordRevert(app) ==
    /\ last' = Op("record_revert", Root, app, NoKey, Ok, host, <<rec>>, cache, micro)
    /\ rec' = RevertData(rec, app)
    /\ UNCHANGED <<host, store, cache, micro, nops, pc, loc>>

InitRecord ==
    /\ host = [n \in SNames |-> NoKey]
    /\ store = <<>>
    /\ cache = NoEntry
    /\ micro = [w \in Views |-> EmptyMicro]
    /\ last = NoOp(host)
    /\ nops = 0
    /\ rec \in AllData
    /\ pc = [t \in Threads |-> "idle"]
    /\ loc = [t \in Threads |-> IdleLoc]

NextRecord == \E app \in {NoApp} \cup Containers : RecordRevert(app)

SpecRecord == InitRecord /\ [][NextRecord]_vars

(* ------------------------ concurrent requests ------------------------- *)
(* Each thread runs a proxy operation on the root proxy one store or     *)
(* cache access at a time: a read (the _custom property alone) or a      *)
(* write of a name host configuration does not expose.                   *)
Goto(t, label) == pc' = [pc EXCEPT ![t] = label]

(* the operation returns (or raises err): its locals are gone, what the  *)
(* call was (op, name, value) and how it ended stays on record           *)
Return(t, err) ==
    /\ pc' = [pc EXCEPT ![t] = "idle"]
    /\ loc' = [loc EXCEPT ![t] = [IdleLoc EXCEPT !.err = err,
                                                 !.op = loc[t].op,
                                                 !.name = loc[t].name,
                                                 !.value = loc[t].value]]

(* _custom returned: a read is done, a write goes on with                *)
(* setattr(custom, name, value) on its own instance and custom.save()    *)
AfterCustom(t, pk, d) ==
    IF loc[t].op = "read"
    THEN Return(t, "")
    ELSE /\ Goto(t, "w_validate")
         /\ loc' = [loc EXCEPT ![t].pk = pk,
                               ![t].data = SettingsSetAttr(d, loc[t].name, loc[t].value)]

Begin(t, op, name, value) ==
    /\ pc[t] = "idle"
    /\ nops < MaxConcOps
    /\ nops' = nops + 1
    /\ loc' = [loc EXCEPT ![t] = [IdleLoc EXCEPT !.op = op, !.name = name, !.value = value]]
    /\ Goto(t, "cache_get")
    /\ UNCHANGED <<host, store, cache, micro, last, rec>>

(* from_cache = cache.get(CACHE_KEY) *)
CacheGet(t) ==
    /\ pc[t] = "cache_get"
    /\ IF cache.present
       THEN AfterCustom(t, cache.pk, cache.data)
       ELSE Goto(t, "objects_get") /\ UNCHANGED loc
    /\ UNCHANGED <<host, store, cache, micro, last, nops, rec>>

(* Settings.objects.get() *)
ObjectsGetStep(t) ==
    /\ pc[t] = "objects_get"
    /\ LET got == ObjectsGet(store) IN
       IF got.err = ""
       THEN /\ loc' = [loc EXCEPT ![t].pk = got.pk, ![t].data = got.data]
            /\ Goto(t, "cache_set")
       ELSE IF got.err = "DoesNotExist"
       THEN Goto(t, "validate_new") /\ UNCHANGED loc
       ELSE Return(t, got.err)
    /\ UNCHANGED <<host, store, cache, micro, last, nops, rec>>

(* Settings.objects.create(data={}): pre_save validate_unique *)
ValidateNew(t) ==
    /\ pc[t] = "validate_new"
    /\ IF ValidateUnique(NoPk, store)
       THEN Goto(t, "insert") /\ UNCHANGED loc
       ELSE Return(t, OnlyOne)
    /\ UNCHANGED <<host, store, cache, micro, last, nops, rec>>

(* Settings.objects.create(data={}): INSERT *)
Insert(t) ==
    /\ pc[t] = "insert"
    /\ store' = Append(store, EmptyData)
    /\ loc' = [loc EXCEPT ![t].pk = Len(store) + 1, ![t].data = EmptyData]
    /\ Goto(t, "post_save_new")
    /\ UNCHANGED <<host, cache, micro, last, nops, rec>>

(* Settings.objects.create(data={}): post_save *)
PostSaveNew(t) ==
    /\ pc[t] = "post_save_new"
    /\ cache' = ClearSettingsCache(cache)
    /\ Goto(t, "cache_set")
    /\ UNCHANGED <<host, store, micro, last, nops, rec, loc>>

(* cache.set(CACHE_KEY, custom) *)
CacheSet(t) ==
    /\ pc[t] = "cache_set"
    /\ cache' = CacheEntry(loc[t].pk, loc[t].data)
    /\ AfterCustom(t, loc[t].pk, loc[t].data)
    /\ UNCHANGED <<host, store, micro, last, nops, rec>>

(* custom.save(): pre_save validate_unique *)
WValidate(t) ==
    /\ pc[t] = "w_validate"
    /\ IF ValidateUnique(loc[t].pk, store)
       THEN Goto(t, "w_update") /\ UNCHANGED loc
       ELSE Return(t, OnlyOne)
    /\ UNCHANGED <<host, store, cache, micro, last, nops, rec>>

(* mutant: the UPDATE sets the written key in the row as it is now and   *)
(* keeps the row's other keys                                            *)
WUpdateMerge(t) ==
    /\ pc[t] = "w_update"
    /\ store' = [store EXCEPT ![loc[t].pk] = SettingsSetAttr(@, loc[t].name, loc[t].value)]
    /\ Goto(t, "w_post_save")
    /\ UNCHANGED <<host, cache, micro, last, nops, rec, loc>>

(* custom.save(): UPDATE of the whole data column *)
WUpdate(t) ==
    /\ pc[t] = "w_update"
    /\ store' = [store EXCEPT ![loc[t].pk] = loc[t].data]
    /\ Goto(t, "w_post_save")
    /\ UNCHANGED <<host, cache, micro, last, nops, rec, loc>>

(* custom.save(): post_save *)
WPostSave(t) ==
    /\ pc[t] = "w_post_save"
    /\ cache' = ClearSettingsCache(cache)
    /\ Goto(t, "w_cache_delete")
    /\ UNCHANGED <<host, store, micro, last, nops, rec, loc>>

(* cache.delete(CACHE_KEY) *)
WCacheDelete(t) ==
    /\ pc[t] = "w_cache_delete"
    /\ cache' = CacheDelete(cache)
    /\ Return(t, "")
    /\ UNCHANGED <<host, store, micro, last, nops, rec>>

InitConc ==
    /\ host = [n \in SNames |-> NoKey]
    /\ store = <<>>
    /\ cache = NoEntry
    /\ micro = [w \in Views |-> EmptyMicro]
    /\ last = NoOp(host)
    /\ nops = 0
    /\ rec = EmptyData
    /\ pc = [t \in Threads |-> "idle"]
    /\ loc = [t \in Threads |-> IdleLoc]

NextConc ==
    \E t \in Threads :
        \/ Begin(t, "read", "", NoKey)
        \/ \E name \in SNames, value \in Values : Begin(t, "write", name, value)
        \/ CacheGet(t)
        \/ ObjectsGetStep(t)
        \/ ValidateNew(t)
        \/ Insert(t)
        \/ PostSaveNew(t)
        \/ CacheSet(t)
        \/ WValidate(t)
        \/ WUpdate(t)
        \/ WPostSave(t)
        \/ WCacheDelete(t)

SpecConc == InitConc /\ [][NextConc]_vars

(* ======================= properties: single thread ==================== *)
PersistedData(st) == IF Len(st) = 0 THEN EmptyData ELSE st[1]

(* name has an override a read through view would find in data *)
Overridden(d, view, name) ==
    IF name \in Containers THEN d.sub[name].present
    ELSE \/ view # Root /\ d.sub[view].present /\ d.sub[view].map[name] # NoKey
         \/ d.top[name] # NoKey

(* name is a key nowhere in data *)
InNoData(d, name) ==
    IF name \in Containers THEN ~d.sub[name].present
    ELSE d.top[name] = NoKey /\ \A c \in Containers : d.sub[c].map[name] = NoKey

Wrote == last.op = "write" /\ last.res = Ok

FreshRead(view, name) == Resolve(host, store, cache, view, name)
FreshReadBefore(view, name) == Resolve(last.host, last.store, last.cache, view, name)

(* what the next read of name through view returns: the micro-cache      *)
(* entry when there is one, the resolved value otherwise                 *)
ReadValue(m, view, name) ==
    IF m[view][name] # None THEN m[view][name] ELSE FreshRead(view, name)

(* C1 as stated: after a write of V to name through the root proxy, a    *)
(* read of name through a root proxy with an empty micro-cache returns V.*)
C1_RoundTrip ==
    (Wrote /\ last.view = Root) => FreshRead(Root, last.name) = Val(last.value)

(* C1 amended: after a write of V to name through the root proxy, a read *)
(* of name through a root proxy with an empty micro-cache returns V,     *)
(* unless host configuration exposes name while the persisted record     *)
(* holds a top-level override of it.                                     *)
C1_RoundTripAmended ==
    (/\ Wrote /\ last.view = Root
     /\ ~(/\ HostHas(last.host, last.name)
          /\ PersistedData(last.store).top[last.name] # NoKey))
    => FreshRead(Root, last.name) = Val(last.value)

C1_Witness ==
    /\ Wrote /\ last.view = Root /\ last.name = "P"
    /\ ~HostHas(last.host, "P")
    /\ Len(last.store) = 1
    /\ FreshReadBefore(Root, "P") # Val(last.value)
    /\ FreshRead(Root, "P") = Val(last.value)

(* C2 as stated: after a write of name through the scoped proxy of one   *)
(* container, a fresh read of name through the proxy of every other view *)
(* (another container, the root) returns what it returned before.        *)
C2_Scoping ==
    (Wrote /\ last.view \in Containers)
    => \A w \in Views \ {last.view} :
          FreshRead(w, last.name) = FreshReadBefore(w, last.name)

(* C2 amended: the same, for a name host configuration does not expose.  *)
C2_ScopingAmended ==
    (Wrote /\ last.view \in Containers /\ ~HostHas(last.host, last.name))
    => \A w \in Views \ {last.view} :
          FreshRead(w, last.name) = FreshReadBefore(w, last.name)

C2_Witness ==
    /\ Wrote /\ last.view = "app1" /\ ~HostHas(last.host, last.name)
    /\ FreshReadBefore("app1", last.name) # Val(last.value)
    /\ FreshRead("app1", last.name) = Val(last.value)
    /\ FreshRead("app2", last.name) # Val(last.value)

(* C3 as stated: after any completed write through a proxy, a read of    *)
(* the written name through a fresh proxy of that view returns the       *)
(* written value.                                                        *)
C3_FreshReadAfterWrite ==
    Wrote => FreshRead(last.view, last.name) = Val(last.value)

(* C3 amended: after any completed write through a proxy, a read of the  *)
(* written name through a fresh proxy of that view returns the written   *)
(* value, unless host configuration exposes the name while the persisted *)
(* record holds an override of it for that view; and a write that goes   *)
(* to the record leaves no Resolution Cache entry behind.                *)
C3_FreshReadAfterWriteAmended ==
    Wrote =>
      /\ ~(/\ HostHas(last.host, last.name)
           /\ Overridden(PersistedData(last.store), last.view, last.name))
         => FreshRead(last.view, last.name) = Val(last.value)
      /\ ~HostHas(last.host, last.name) => ~cache.present

C3_Witness ==
    /\ Wrote /\ ~HostHas(last.host, last.name)
    /\ last.cache.present
    /\ GetSettingValue(last.cache.data, last.host, last.view, last.name) # Val(last.value)
    /\ ~cache.present
    /\ FreshRead(last.view, last.name) = Val(last.value)

(* C5: creating a new record while one exists fails with the "Only one   *)
(* Settings instance" validation error and leaves the store as it was;   *)
(* creating a record in an empty store succeeds and leaves one record;   *)
(* every save of the one existing record (by save, a write or a delete   *)
(* that goes to the record, or store-default-values) succeeds.           *)
C5_SingletonOnPersist ==
    /\ (last.op = "create" /\ Len(last.store) >= 1)
       => last.res = Err(OnlyOne, "") /\ store = last.store
    /\ (last.op \in {"create", "store_defaults"} /\ Len(last.store) = 0)
       => last.res = Ok /\ Len(store) = 1
    /\ (/\ last.op \in {"save", "write", "delete", "store_defaults", "store_defaults_cf"}
        /\ Len(last.store) = 1)
       => last.res = Ok /\ Len(store) = 1

C5_Witness ==
    /\ last.op = "create" /\ Len(last.store) = 1
    /\ last.res = Err(OnlyOne, "")
    /\ store = last.store
    /\ PersistedData(store) # EmptyData

(* C6 as stated: a write or delete, through any proxy, of a name absent  *)
(* from host configuration, from the schema and from the persisted data  *)
(* fails with an attribute error naming it and leaves the persisted data *)
(* unchanged.                                                            *)
C6_UnknownMutationFails ==
    (/\ last.op \in {"write", "delete"}
     /\ ~HostHas(last.host, last.name)
     /\ \A w \in Views : ~HasAttr(w, last.name)
     /\ InNoData(PersistedData(last.store), last.name))
    => /\ last.res = Err("AttributeError", last.name)
       /\ PersistedData(store) = PersistedData(last.store)

(* C7 as stated: a read, through a proxy, of a name absent from the      *)
(* persisted data (the proxy's sub-mapping and the top level), from host *)
(* configuration and from the proxy's schema view fails with an          *)
(* attribute error naming it and stores no micro-cache entry for it.     *)
C7_UnknownRead ==
    (/\ last.op = "read"
     /\ ~Overridden(PersistedData(last.store), last.view, last.name)
     /\ ~HostHas(last.host, last.name)
     /\ ~HasAttr(last.view, last.name))
    => /\ last.res = Err("AttributeError", last.name)
       /\ micro[last.view][last.name] = None

(* C7 amended: the same, for a read that finds no unexpired micro-cache  *)
(* entry for the name.                                                   *)
C7_UnknownReadAmended ==
    (/\ last.op = "read"
     /\ last.micro[last.view][last.name] = None
     /\ ~Overridden(PersistedData(last.store), last.view, last.name)
     /\ ~HostHas(last.host, last.name)
     /\ ~HasAttr(last.view, last.name))
    => /\ last.res = Err("AttributeError", last.name)
       /\ micro[last.view][last.name] = None

C7_Witness ==
    /\ last.op = "read" /\ last.name = "U" /\ last.view = "app1"
    /\ last.micro["app1"]["U"] = None
    /\ PersistedData(last.store).sub["app2"].map["U"] # NoKey
    /\ last.res = Err("AttributeError", "U")
    /\ micro["app1"]["U"] = None

(* C8 as stated: a read, with no micro-cache entry, of a name that host  *)
(* configuration exposes and the proxy's schema declares with a default  *)
(* returns the host-configuration value.                                 *)
C8_HostOverDefault ==
    (/\ last.op = "read"
     /\ last.micro[last.view][last.name] = None
     /\ HostHas(last.host, last.name)
     /\ last.name \in Declared(last.view))
    => last.res = Val(last.host[last.name])

(* C8 amended: the same, when the persisted record holds no override of  *)
(* the name for that proxy (neither in its sub-mapping nor at top level).*)
C8_HostOverDefaultAmended ==
    (/\ last.op = "read"
     /\ last.micro[last.view][last.name] = None
     /\ HostHas(last.host, last.name)
     /\ last.name \in Declared(last.view)
     /\ ~Overridden(PersistedData(last.store), last.view, last.name))
    => last.res = Val(last.host[last.name])

C8_Witness ==
    /\ last.op = "read" /\ last.view = "app2" /\ last.name = "P"
    /\ last.micro["app2"]["P"] = None
    /\ HostHas(last.host, "P")
    /\ last.host["P"] # Default("app2", "P")
    /\ Len(last.store) = 1
    /\ last.res = Val(last.host["P"])

(* C9 as stated: a read of a (non-container) setting the proxy's schema  *)
(* declares, with no override in the persisted record for that proxy and *)
(* not exposed by host configuration, returns the declared default.      *)
C9_DefaultFallback ==
    (/\ last.op = "read"
     /\ last.name \in Declared(last.view)
     /\ ~Overridden(PersistedData(last.store), last.view, last.name)
     /\ ~HostHas(last.host, last.name))
    => last.res = Val(Default(last.view, last.name))

(* C9 amended: the same, for a read that finds no unexpired micro-cache  *)
(* entry for the name.                                                   *)
C9_DefaultFallbackAmended ==
    (/\ last.op = "read"
     /\ last.micro[last.view][last.name] = None
     /\ last.name \in Declared(last.view)
     /\ ~Overridden(PersistedData(last.store), last.view, last.name)
     /\ ~HostHas(last.host, last.name))
    => last.res = Val(Default(last.view, last.name))

C9_Witness ==
    /\ last.op = "read" /\ last.view = "app2" /\ last.name = "P"
    /\ last.micro["app2"]["P"] = None
    /\ ~HostHas(last.host, "P")
    /\ PersistedData(last.store).sub["app1"].map["P"] = DefaultApp1P + 1
    /\ last.res = Val(DefaultApp2P)

(* C11 as stated: a delete of name mirrors a write. When host            *)
(* configuration exposes name, only host configuration loses it and the  *)
(* store is untouched; otherwise a delete through the root proxy removes *)
(* only the top-level key name, and a delete through the proxy of        *)
(* container c removes name from c's sub-mapping only, leaving top-level *)
(* entries and the other containers' sub-mappings as they were.          *)
C11_DeleteMirrorsWrite ==
    (last.op = "delete" /\ last.name \in SNames)
    => LET pre == PersistedData(last.store)
           post == PersistedData(store)
       IN IF HostHas(last.host, last.name)
          THEN /\ host = [last.host EXCEPT ![last.name] = NoKey]
               /\ store = last.store
          ELSE /\ host = last.host
               /\ last.res = Ok
               /\ Len(store) = 1
               /\ IF last.view = Root
                  THEN post = [pre EXCEPT !.top[last.name] = NoKey]
                  ELSE /\ post.top = pre.top
                       /\ \A c \in Containers \ {last.view} : post.sub[c] = pre.sub[c]
                       /\ post.sub[last.view].map
                            = [pre.sub[last.view].map EXCEPT ![last.name] = NoKey]

(* C12 as stated: from an empty store or a store of one record, the      *)
(* store-default-values command completes and leaves exactly one record  *)
(* whose data maps every declared project-level setting to its default   *)
(* and every container to a sub-mapping of each of its settings to its   *)
(* default, whether the schema yields a setting or a container first.    *)
C12_StoreDefaults ==
    (last.op \in {"store_defaults", "store_defaults_cf"} /\ Len(last.store) <= 1)
    => /\ last.res = Ok
       /\ Len(store) = 1
       /\ \A n \in Declared(Root) : store[1].top[n] = Default(Root, n)
       /\ \A c \in Containers :
             /\ store[1].sub[c].present
             /\ \A n \in Declared(c) : store[1].sub[c].map[n] = Default(c, n)

(* C13 as stated: after a write of name no proxy instance keeps a        *)
(* pre-write micro-cache entry of name, so the next read of name through *)
(* every instance returns what a proxy with an empty micro-cache reads.  *)
C13_MicroClearedOnWrite ==
    Wrote => \A w \in Views :
                 ReadValue(micro, w, last.name) = FreshRead(w, last.name)

(* C16: a read that misses the micro-cache resolves name by precedence:  *)
(* an override in the scoped proxy's container sub-mapping is returned   *)
(* before everything else; otherwise a top-level entry of a setting name *)
(* is returned, also when host configuration exposes name; otherwise the *)
(* host value is returned before any schema default; and a read of a     *)
(* container name, whose top-level entry is a sub-mapping, never returns *)
(* a stored value.                                                       *)
C16_Precedence ==
    (last.op = "read" /\ last.micro[last.view][last.name] = None)
    => LET d == PersistedData(last.store)
           v == last.view
           n == last.name
       IN IF n \in Containers
          THEN last.res.kind # "value"
          ELSE IF v # Root /\ d.sub[v].map[n] # NoKey
          THEN last.res = Val(d.sub[v].map[n])
          ELSE IF d.top[n] # NoKey
          THEN last.res = Val(d.top[n])
          ELSE HostHas(last.host, n) => last.res = Val(last.host[n])

C16_Witness ==
    /\ last.op = "read" /\ last.view = "app1" /\ last.name = "P"
    /\ last.micro["app1"]["P"] = None
    /\ HostHas(last.host, "P")
    /\ PersistedData(last.store).sub["app1"].map["P"] = NoKey
    /\ PersistedData(last.store).top["P"] # NoKey
    /\ last.host["P"] # PersistedData(last.store).top["P"]
    /\ last.res = Val(PersistedData(last.store).top["P"])

(* C17: a write of a name host configuration exposes, through the root   *)
(* or a scoped proxy, sets that name in host configuration and changes   *)
(* nothing else: the store (its records and their data), the Resolution  *)
(* Cache entry and the other host names are as before.                   *)
C17_HostWriteFrame ==
    (last.op = "write" /\ HostHas(last.host, last.name))
    => /\ last.res = Ok
       /\ host = [last.host EXCEPT ![last.name] = last.value]
       /\ store = last.store
       /\ cache = last.cache

C17_Witness ==
    /\ last.op = "write" /\ last.view = "app1" /\ last.name = "U"
    /\ HostHas(last.host, "U") /\ HostHas(last.host, "P")
    /\ last.value # last.host["U"]
    /\ Len(last.store) = 1 /\ last.cache.present
    /\ host = [last.host EXCEPT !["U"] = last.value]
    /\ store = last.store /\ cache = last.cache

(* C18 as stated: after proxy.revert(), the proxy.save() that follows    *)
(* leaves the persisted data equal to the data before the revert with    *)
(* every override that has a Setting Definition set to its default.      *)
C18_RevertThenSave ==
    (last.op = "revert" /\ last.res = Ok)
    => LET s == SaveCall(store, cache)
       IN /\ s.err = ""
          /\ PersistedData(s.store) = RevertData(PersistedData(last.store), NoApp)

(* C20: a read that misses the micro-cache and the Resolution Cache with *)
(* no record in the store creates one record with empty data and returns *)
(* what host configuration, then the schema, give for the name (an       *)
(* AttributeError only for a name neither knows); a read with a record   *)
(* in the store leaves the store as it was; a read never leaves more     *)
(* than one record.                                                      *)
C20_LazyCreation ==
    last.op = "read"
    => /\ (/\ last.micro[last.view][last.name] = None
           /\ ~last.cache.present
           /\ Len(last.store) = 0)
          => /\ store = <<EmptyData>>
             /\ last.res = IF HostHas(last.host, last.name)
                           THEN Val(last.host[last.name])
                           ELSE IF ~HasAttr(last.view, last.name)
                           THEN Err("AttributeError", last.name)
                           ELSE IF IsSettingsContainer(last.view, last.name)
                           THEN Proxy(last.name)
                           ELSE Val(Default(last.view, last.name))
       /\ Len(last.store) >= 1 => store = last.store
       /\ Len(store) <= 1

C20_Witness ==
    /\ last.op = "read" /\ last.view = "app2" /\ last.name = "P"
    /\ ~HostHas(last.host, "P")
    /\ last.micro["app2"]["P"] = None
    /\ ~last.cache.present
    /\ Len(last.store) = 0
    /\ store = <<EmptyData>>
    /\ last.res = Val(DefaultApp2P)

(* ===================== properties: a record on its own ================ *)
(* C10: the data after revert() (or revert(containerName)) is a fixed    *)
(* point of the same revert: a second call changes nothing.              *)
C10_RevertIdempotent ==
    last.op = "record_revert" => RevertData(rec, last.name) = rec

C10_Witness ==
    /\ last.op = "record_revert" /\ last.name = NoApp
    /\ last.store[1].top["P"] \notin {NoKey, DefaultP}
    /\ last.store[1].top["U"] # NoKey
    /\ last.store[1].sub["app2"].map["P"] \notin {NoKey, DefaultApp2P}
    /\ rec # last.store[1]
    /\ RevertData(rec, NoApp) = rec

(* C19: Settings.revert() adds and removes no key of data at either      *)
(* level, sets every stored key with a non-container Setting Definition  *)
(* to that definition's default, at the top level and one level down in  *)
(* every stored container sub-mapping, and leaves every stored key with  *)
(* no Setting Definition at its value; revert(containerName) does this   *)
(* in that container's sub-mapping only: top-level entries and the other *)
(* containers are unchanged.                                             *)
C19_RecordRevertEffect ==
    last.op = "record_revert"
    => LET pre == last.store[1]
           app == last.name
           Reverted(c) == app = NoApp \/ app = c
       IN /\ \A n \in SNames : (rec.top[n] = NoKey) <=> (pre.top[n] = NoKey)
          /\ \A c \in Containers :
                /\ rec.sub[c].present = pre.sub[c].present
                /\ \A n \in SNames :
                      (rec.sub[c].map[n] = NoKey) <=> (pre.sub[c].map[n] = NoKey)
          /\ \A n \in SNames :
                rec.top[n] = IF app = NoApp /\ pre.top[n] # NoKey /\ n \in Declared(Root)
                             THEN Default(Root, n) ELSE pre.top[n]
          /\ \A c \in Containers : \A n \in SNames :
                rec.sub[c].map[n]
                   = IF Reverted(c) /\ pre.sub[c].map[n] # NoKey /\ n \in Declared(c)
                     THEN Default(c, n) ELSE pre.sub[c].map[n]

C19_Witness ==
    /\ last.op = "record_revert" /\ last.name = "app1"
    /\ last.store[1].top["P"] \notin {NoKey, DefaultP}
    /\ last.store[1].sub["app1"].map["P"] \notin {NoKey, DefaultApp1P}
    /\ last.store[1].sub["app1"].map["U"] # NoKey
    /\ last.store[1].sub["app2"].map["P"] \notin {NoKey, DefaultApp2P}
    /\ rec = [last.store[1] EXCEPT !.sub["app1"].map["P"] = DefaultApp1P]

(* ===================== properties: concurrent requests ================ *)
(* C4 as stated: the store never holds more than one Settings record.    *)
C4_AtMostOneRecord == Len(store) <= 1

(* thread t is idle after a call of kind op that returned without error *)
Completed(t, op) == pc[t] = "idle" /\ loc[t].op = op /\ loc[t].err = ""

(* C14 as stated, over the runs that keep one record in the store: once  *)
(* a reader and a writer that ran concurrently have both completed, the  *)
(* Resolution Cache is empty or holds the data currently persisted.      *)
C14_CacheCoherent ==
    (/\ Len(store) = 1
     /\ \E r, w \in Threads : r # w /\ Completed(r, "read") /\ Completed(w, "write"))
    => (~cache.present \/ cache.data = store[1])

(* C15: every persist of a proxy write replaces the whole data of the    *)
(* record by the writer's own copy, merging nothing of what the row held *)
(* (so that of two concurrent writes to different names the blob of the  *)
(* last persist stays and the other update can be lost).                 *)
C15_LastWriteWins ==
    [][\A t \in Threads :
          (pc[t] = "w_update" /\ pc'[t] = "w_post_save")
          => /\ store'[loc[t].pk] = loc[t].data
             /\ \A i \in 1..Len(store) : i # loc[t].pk => store'[i] = store[i]]_vars

(* two writes to different names have both completed without error and   *)
(* the one record holds the update of one of them only                   *)
C15_Witness ==
    /\ Len(store) = 1
    /\ \E a, b \in Threads :
          /\ a # b /\ Completed(a, "write") /\ Completed(b, "write")
          /\ loc[a].name # loc[b].name
          /\ store[1].top[loc[a].name] = NoKey
          /\ store[1].top[loc[b].name] = loc[b].value

====
